---- MODULE Spec2Model ----
(***************************************************************************)
(* A model of event_horizon.py: the prime table, power_mod, the per-prime  *)
(* loop of analyze_physics (Legendre sum, local group order, Collatz       *)
(* glide), and the two drivers probe_manual and mine_titans.               *)
(*                                                                         *)
(* Five specifications share the variables:                                *)
(*   SpecPowerMod  power_mod applied to inputs drawn from bounded sets     *)
(*   SpecAnalyze   analyze_physics(a, b) over a prefix of the prime table  *)
(*   SpecGlide     the glide loop started from an arbitrary value Np       *)
(*   SpecTable     the glide loop started from every Np the 400-prime      *)
(*                 table can produce                                       *)
(*   Spec          the entry point, probe_manual and mine_titans           *)
(***************************************************************************)
EXTENDS Integers, Sequences, FiniteSets

VARIABLES
    pc,          \* position of the running code
    pm_base,     \* power_mod: argument base
    pm_exp,      \* power_mod: argument exp
    pm_mod,      \* power_mod: argument mod
    pm_res,      \* power_mod: returned value
    a, b,        \* curve coefficients (arguments of analyze_physics / drawn pair)
    i,           \* analyze_physics: index of the prime loop (0-based)
    x,           \* analyze_physics: residue of the inner loop
    fx,          \* analyze_physics: last f(x) mod p
    val,         \* analyze_physics: last per-residue value added to ls_sum
    ls_sum,      \* analyze_physics: Legendre sum of the current prime
    bsd_score,   \* analyze_physics: the traces ap accumulated so far; term k
                 \* stands for ap * LOGS2[k] / PRIMES[k] of the float sum
    Np,          \* analyze_physics: local group order of the current prime
    steps,       \* analyze_physics: glide step counter
    curr,        \* analyze_physics: running value of the 3x+1 map (64-bit, two limbs)
    max_glide,   \* analyze_physics: running maximum of the glides
    analyzed,    \* driver: analyze_physics was invoked on the pair (a, b)
    calls,       \* driver: number of invocations of analyze_physics by mine_titans
    score,       \* driver: first component returned by analyze_physics
    glide,       \* driver: second component returned by analyze_physics
    attempts,    \* mine_titans: attempt counter
    file,        \* mine_titans: lines of titans_found.txt
    label        \* probe_manual: classification printed

vars == <<pc, pm_base, pm_exp, pm_mod, pm_res, a, b, i, x, fx, val, ls_sum,
          bsd_score, Np, steps, curr, max_glide, analyzed, calls, score,
          glide, attempts, file, label>>

pmVars == <<pm_base, pm_exp, pm_mod, pm_res>>
legVars == <<i, x, fx, val, ls_sum, bsd_score>>
glideVars == <<Np, steps, curr, max_glide>>
drvVars == <<analyzed, calls, score, glide, attempts, file, label>>

(***************************************************************************)
(* Bounds of the model.                                                    *)
(***************************************************************************)
MaxBase == 5        \* power_mod inputs: |base| <= MaxBase
MaxExp == 6         \* power_mod inputs: exp <= MaxExp
MaxMod == 7         \* power_mod inputs: 2 <= mod <= MaxMod
NumPrimes == 5      \* primes of the table that SpecAnalyze runs through
MaxCoef == 5        \* SpecAnalyze: |a|, |b| <= MaxCoef
MaxStart == 40      \* SpecGlide: |Np| <= MaxStart
GlideRounds == 2    \* SpecGlide: successive glide computations
MaxAttempts == 3    \* Spec: the mining loop stops drawing at this count

(***************************************************************************)
(* Values of the variables a specification does not use.                   *)
(***************************************************************************)
PMIdle == pm_base = 0 /\ pm_exp = 0 /\ pm_mod = 2 /\ pm_res = 0
LegIdle == i = 0 /\ x = 0 /\ fx = 0 /\ val = 0 /\ ls_sum = 0 /\ bsd_score = <<>>
GlideIdle == Np = 0 /\ steps = 0 /\ curr = [hi |-> 0, lo |-> 0] /\ max_glide = 0
DrvIdle ==
    /\ analyzed = FALSE /\ calls = 0 /\ score = 0 /\ glide = 0
    /\ attempts = 0 /\ file = <<>> /\ label = "none"

(***************************************************************************)
(* 1. The prime table (lines 23-28).                                       *)
(***************************************************************************)
PRIMES_COUNT == 400

IsPrime(n) == n >= 2 /\ \A d \in 2..(n - 1) : d * d > n \/ n % d # 0

\* sympy.sieve.primerange(lo, hi): the primes of [lo, hi), ascending
RECURSIVE primerange(_, _)
primerange(lo, hi) ==
    IF lo >= hi THEN <<>>
    ELSE IF hi = lo + 1 THEN (IF IsPrime(lo) THEN <<lo>> ELSE <<>>)
    ELSE LET mid == (lo + hi) \div 2
         IN  primerange(lo, mid) \o primerange(mid, hi)

\* PRIMES[k] of the model is PRIMES[k-1] of the source
PRIMES == SubSeq(primerange(2, 3000), 1, PRIMES_COUNT)

(***************************************************************************)
(* 2. power_mod (lines 31-40).  % is the floored modulo of Python and of   *)
(* TLA+, >> 1 is the floored division by two.                              *)
(***************************************************************************)
RECURSIVE pm_loop_skewed(_, _, _, _)
pm_loop_skewed(res, base, exp, mod) ==
    IF exp > 0
    THEN pm_loop_skewed(IF exp % 2 = 0 THEN (res * base) % mod ELSE res,
                        (base * base) % mod, exp \div 2, mod)
    ELSE res

\* the while loop of lines 36-39
RECURSIVE pm_loop(_, _, _, _)
pm_loop(res, base, exp, mod) ==
    IF exp > 0
    THEN pm_loop(IF exp % 2 = 1 THEN (res * base) % mod ELSE res,
                 (base * base) % mod, exp \div 2, mod)
    ELSE res

power_mod(base, exp, mod) == pm_loop(1, base % mod, exp, mod)

PMInit ==
    /\ pc = "pm_call"
    /\ pm_base \in (-MaxBase)..MaxBase
    /\ pm_exp \in 0..MaxExp
    /\ pm_mod \in 2..MaxMod
    /\ pm_res = 0
    /\ a = 0 /\ b = 0
    /\ LegIdle /\ GlideIdle /\ DrvIdle

PowerModCall ==
    /\ pc = "pm_call"
    /\ pm_res' = power_mod(pm_base, pm_exp, pm_mod)
    /\ pc' = "pm_done"
    /\ UNCHANGED <<pm_base, pm_exp, pm_mod, a, b, legVars, glideVars, drvVars>>

PMNext == PowerModCall

SpecPowerMod == PMInit /\ [][PMNext]_vars

(***************************************************************************)
(* 3. analyze_physics (lines 42-91).                                       *)
(*                                                                         *)
(* The compiled code holds a, b, fx, ls_sum, Np and curr in 64-bit         *)
(* integers.  Every value of the model but curr stays far below 2^31, so   *)
(* they are plain integers; curr, which climbs above 2^31 on long orbits,  *)
(* is kept as two limbs [hi, lo] standing for hi * LIMB + lo.              *)
(***************************************************************************)
LIMB == 2^24

Wide(n) == [hi |-> n \div LIMB, lo |-> n % LIMB]

\* curr % 2 == 0
WEven(c) == c.lo % 2 = 0

\* curr >>= 1
WHalf(c) == [hi |-> c.hi \div 2, lo |-> (c.lo + (c.hi % 2) * LIMB) \div 2]

\* 3 * curr + 1
WTriplePlusOne(c) ==
    LET t == 3 * c.lo + 1
    IN  [hi |-> 3 * c.hi + t \div LIMB, lo |-> t % LIMB]

\* curr < n
WLess(c, n) == c.hi < n \div LIMB \/ (c.hi = n \div LIMB /\ c.lo < n % LIMB)

\* curr > 1
WAboveOne(c) == c.hi > 0 \/ (c.hi = 0 /\ c.lo > 1)

\* line 59
cubic_mod(xx, aa, bb, p) == (xx * xx * xx + aa * xx + bb) % p

legendre_val_unmapped(f, p) ==
    IF f = 0 THEN 0 ELSE power_mod(f, (p - 1) \div 2, p)

\* lines 60-65: the value added to ls_sum for a residue with f(x) mod p = f
legendre_val(f, p) ==
    IF f = 0
    THEN 0
    ELSE LET v == power_mod(f, (p - 1) \div 2, p)
         IN  IF v = p - 1 THEN -1 ELSE v

\* line 68
local_trace(ls) == -ls

group_order_shifted(p, ap) == p - 1 - ap

\* line 76
group_order(p, ap) == p + 1 - ap

GLIDE_CAP_short == 300 \div 3

\* line 81: the iteration cap of the glide loop
GLIDE_CAP == 300

collatz_shortcut(c) ==
    IF WEven(c) THEN WHalf(c) ELSE WHalf(WTriplePlusOne(c))

\* lines 82-85: one application of the 3x+1 map
collatz(c) == IF WEven(c) THEN WHalf(c) ELSE WTriplePlusOne(c)

glide_continues_inclusive(c, s) == WAboveOne(c) /\ s <= GLIDE_CAP

\* line 81: the loop condition
glide_continues(c, s) == WAboveOne(c) /\ s < GLIDE_CAP

\* line 87: the orbit dropped below its start
glided(c, n) == WLess(c, n)

\* line 52: the prime loop of the source runs over the whole table; the
\* model runs over its first NumPrimes entries
TableLen == IF NumPrimes < PRIMES_COUNT THEN NumPrimes ELSE PRIMES_COUNT

CurPrime == PRIMES[i + 1]

AnalyzeInit ==
    /\ pc = "prime"
    /\ a \in (-MaxCoef)..MaxCoef
    /\ b \in (-MaxCoef)..MaxCoef
    /\ PMIdle /\ LegIdle /\ GlideIdle /\ DrvIdle

\* lines 52-57: enter the body of the prime loop
NextPrime ==
    /\ pc = "prime"
    /\ i < TableLen
    /\ ls_sum' = 0
    /\ x' = 0
    /\ pc' = "residue"
    /\ UNCHANGED <<pmVars, a, b, i, fx, val, bsd_score, glideVars, drvVars>>

\* lines 58-66: one residue of the Legendre sum
LegendreStep ==
    /\ pc = "residue"
    /\ x < CurPrime
    /\ fx' = cubic_mod(x, a, b, CurPrime)
    /\ val' = legendre_val(fx', CurPrime)
    /\ ls_sum' = ls_sum + val'
    /\ x' = x + 1
    /\ UNCHANGED <<pc, pmVars, a, b, i, bsd_score, glideVars, drvVars>>

\* lines 76-78: start the glide loop from the value n
GlideEnter(n) ==
    /\ Np' = n
    /\ steps' = 0
    /\ curr' = Wide(n)
    /\ pc' = "glide"

\* lines 68-78: the residue loop is over
TraceDone ==
    /\ pc = "residue"
    /\ x = CurPrime
    /\ bsd_score' = Append(bsd_score, local_trace(ls_sum))
    /\ GlideEnter(group_order(CurPrime, local_trace(ls_sum)))
    /\ UNCHANGED <<pmVars, a, b, i, x, fx, val, ls_sum, max_glide, drvVars>>

\* lines 81-87: one iteration of the glide loop, the break included
GlideStep ==
    /\ pc = "glide"
    /\ glide_continues(curr, steps)
    /\ curr' = collatz(curr)
    /\ steps' = steps + 1
    /\ pc' = IF glided(curr', Np) THEN "glide_end" ELSE "glide"
    /\ UNCHANGED <<pmVars, a, b, legVars, Np, max_glide, drvVars>>

\* line 81: the loop condition fails
GlideExit ==
    /\ pc = "glide"
    /\ ~glide_continues(curr, steps)
    /\ pc' = "glide_end"
    /\ UNCHANGED <<pmVars, a, b, legVars, glideVars, drvVars>>

\* line 89, and the increment of the prime loop
GlideEnd ==
    /\ pc = "glide_end"
    /\ max_glide' = IF steps > max_glide THEN steps ELSE max_glide
    /\ i' = i + 1
    /\ pc' = "prime"
    /\ UNCHANGED <<pmVars, a, b, x, fx, val, ls_sum, bsd_score, Np, steps,
                   curr, drvVars>>

\* line 91: return bsd_score, max_glide
AnalyzeReturn ==
    /\ pc = "prime"
    /\ i = TableLen
    /\ glide' = max_glide
    /\ pc' = "return"
    /\ UNCHANGED <<pmVars, a, b, legVars, glideVars, analyzed, calls, score,
                   attempts, file, label>>

AnalyzeNext ==
    \/ NextPrime
    \/ LegendreStep
    \/ TraceDone
    \/ GlideStep
    \/ GlideExit
    \/ GlideEnd
    \/ AnalyzeReturn

SpecAnalyze == AnalyzeInit /\ [][AnalyzeNext]_vars

(***************************************************************************)
(* The glide loop of lines 76-89 on its own, started from any value.       *)
(***************************************************************************)
\* the least start values whose orbit stays at or above them for 300 steps
LongStarts == {1126015, 1394431}

Starts == ((-MaxStart)..MaxStart) \cup LongStarts

GlideInit ==
    /\ pc = "glide"
    /\ Np \in Starts
    /\ steps = 0
    /\ curr = Wide(Np)
    /\ max_glide = 0
    /\ a = 0 /\ b = 0
    /\ PMIdle /\ LegIdle /\ DrvIdle

\* the next prime of the loop hands the glide loop its own Np
GlideAgain ==
    /\ pc = "prime"
    /\ i < GlideRounds
    /\ \E n \in Starts : GlideEnter(n)
    /\ UNCHANGED <<pmVars, a, b, legVars, max_glide, drvVars>>

GlideNext == GlideStep \/ GlideExit \/ GlideEnd \/ GlideAgain

SpecGlide == GlideInit /\ [][GlideNext]_vars

\* every Np the table can produce lies in 1 .. 2p+1 for its largest prime p
TableStarts == 1..(2 * PRIMES[PRIMES_COUNT] + 1)

TableInit ==
    /\ pc = "glide"
    /\ Np \in TableStarts
    /\ steps = 0
    /\ curr = Wide(Np)
    /\ max_glide = 0
    /\ a = 0 /\ b = 0
    /\ PMIdle /\ LegIdle /\ DrvIdle

TableNext == GlideStep \/ GlideExit \/ GlideEnd

SpecTable == TableInit /\ [][TableNext]_vars

(***************************************************************************)
(* 4. The interface modes (lines 95-175).                                  *)
(*                                                                         *)
(* The drivers only compare the pair returned by analyze_physics with      *)
(* thresholds, so here a call of analyze_physics returns any pair of       *)
(* Scores \X Glides: sample scores on both sides of -28.0, -25.0 and       *)
(* -10.0, sample glides on both sides of 65 and 80.  The coefficients are  *)
(* drawn from samples of the range [-10^12, 10^12] that hold the singular  *)
(* pairs (0, 0), (-3, 2) and (-3, -2).  The progress line of lines         *)
(* 154-157 only writes to the console and is left out.                     *)
(***************************************************************************)
CoefA == {-3, 0, 1}
CoefB == {-2, 0, 2}
Scores == {-29, -28, -26, -10, 0}
Glides == {0, 66, 81}

\* line 139
is_singular(aa, bb) == 4 * aa * aa * aa + 27 * bb * bb = 0

\* line 144
is_titan(s, g) == s < -28 /\ g > 80

\* lines 118-124
classify(s, g) ==
    IF s < -25 /\ g > 65 THEN "high_rank"
    ELSE IF s > -10 THEN "low_rank"
    ELSE "indeterminate"

\* line 151: the line written; BSD is the score printed with four decimals,
\* held as its number of ten-thousandths
titan_line(aa, bb, s, g) == [A |-> aa, B |-> bb, BSD |-> s * 10000, Glide |-> g]

write_truncating(f, line) == <<line>>

\* lines 150-151: open("titans_found.txt", "a") and write
append_line(f, line) == Append(f, line)

DriverInit ==
    /\ pc = "main"
    /\ a = 0 /\ b = 0
    /\ PMIdle /\ LegIdle /\ GlideIdle /\ DrvIdle

\* lines 168-171: choice "1"
MainProbe ==
    /\ pc = "main"
    /\ pc' = "probe"
    /\ UNCHANGED <<pmVars, a, b, legVars, glideVars, drvVars>>

\* lines 172-173 and 128-131: choice "2"; attempts = 0
MainMine ==
    /\ pc = "main"
    /\ attempts' = 0
    /\ pc' = "mine"
    /\ UNCHANGED <<pmVars, a, b, legVars, glideVars, analyzed, calls, score,
                   glide, file, label>>

\* lines 174-175: any other choice
MainInvalid ==
    /\ pc = "main"
    /\ pc' = "done"
    /\ UNCHANGED <<pmVars, a, b, legVars, glideVars, drvVars>>

\* lines 99-104: an input that is not an integer
ProbeBadInput ==
    /\ pc = "probe"
    /\ pc' = "done"
    /\ UNCHANGED <<pmVars, a, b, legVars, glideVars, drvVars>>

\* lines 100-124: two integers are read, analysed and classified
ProbeAnalyze ==
    /\ pc = "probe"
    /\ \E aa \in CoefA, bb \in CoefB, s \in Scores, g \in Glides :
        /\ a' = aa
        /\ b' = bb
        /\ analyzed' = TRUE
        /\ score' = s
        /\ glide' = g
        /\ label' = classify(s, g)
    /\ pc' = "done"
    /\ UNCHANGED <<pmVars, legVars, glideVars, calls, attempts, file>>

MineSingularCounted ==
    /\ pc = "mine"
    /\ attempts < MaxAttempts
    /\ \E aa \in CoefA, bb \in CoefB :
        /\ is_singular(aa, bb)
        /\ a' = aa
        /\ b' = bb
    /\ analyzed' = FALSE
    /\ attempts' = attempts + 1
    /\ UNCHANGED <<pc, pmVars, legVars, glideVars, calls, score, glide,
                   file, label>>

\* lines 134-139: an iteration that draws a singular pair
MineSingular ==
    /\ pc = "mine"
    /\ attempts < MaxAttempts
    /\ \E aa \in CoefA, bb \in CoefB :
        /\ is_singular(aa, bb)
        /\ a' = aa
        /\ b' = bb
    /\ analyzed' = FALSE
    /\ UNCHANGED <<pc, pmVars, legVars, glideVars, calls, score, glide,
                   attempts, file, label>>

\* lines 134-153: an iteration that draws a non-singular pair
MineIteration ==
    /\ pc = "mine"
    /\ attempts < MaxAttempts
    /\ \E aa \in CoefA, bb \in CoefB, s \in Scores, g \in Glides :
        /\ ~is_singular(aa, bb)
        /\ a' = aa
        /\ b' = bb
        /\ analyzed' = TRUE
        /\ score' = s
        /\ glide' = g
        /\ file' = IF is_titan(s, g)
                   THEN append_line(file, titan_line(aa, bb, s, g))
                   ELSE file
    /\ calls' = calls + 1
    /\ attempts' = attempts + 1
    /\ UNCHANGED <<pc, pmVars, legVars, glideVars, label>>

(***************************************************************************)
(* Ctrl+C.  The try of line 133 encloses the whole loop, so the interrupt  *)
(* can arrive between any two lines of an iteration; the handler of lines  *)
(* 159-160 then ends the run with whatever the iteration had done so far.  *)
(* An interrupt after line 153 leaves the state of a completed iteration,  *)
(* which is KeyboardInterrupt taken after MineIteration.                   *)
(***************************************************************************)
\* lines 134, 159-160: Ctrl+C between two iterations
KeyboardInterrupt ==
    /\ pc = "mine"
    /\ pc' = "halted"
    /\ UNCHANGED <<pmVars, a, b, legVars, glideVars, drvVars>>

\* lines 136-139, 159-160: Ctrl+C after a was drawn (b still the old one),
\* or after both were drawn and before analyze_physics is called
MineInterruptedDraw ==
    /\ pc = "mine"
    /\ attempts < MaxAttempts
    /\ \E aa \in CoefA, bb \in CoefB \cup {b} :
        /\ a' = aa
        /\ b' = bb
    /\ analyzed' = FALSE
    /\ pc' = "halted"
    /\ UNCHANGED <<pmVars, legVars, glideVars, calls, score, glide, attempts,
                   file, label>>

\* lines 141, 159-160: Ctrl+C while analyze_physics runs; score and glide
\* are not assigned
MineInterruptedAnalysis ==
    /\ pc = "mine"
    /\ attempts < MaxAttempts
    /\ \E aa \in CoefA, bb \in CoefB :
        /\ ~is_singular(aa, bb)
        /\ a' = aa
        /\ b' = bb
    /\ analyzed' = TRUE
    /\ calls' = calls + 1
    /\ pc' = "halted"
    /\ UNCHANGED <<pmVars, legVars, glideVars, score, glide, attempts, file,
                   label>>

\* lines 141-153, 159-160: Ctrl+C once analyze_physics has returned: before
\* the write of lines 150-151 (written = FALSE), or after it and before
\* attempts += 1 of line 153 (written = TRUE)
MineInterrupted ==
    /\ pc = "mine"
    /\ attempts < MaxAttempts
    /\ \E aa \in CoefA, bb \in CoefB, s \in Scores, g \in Glides,
          written \in BOOLEAN :
        /\ ~is_singular(aa, bb)
        /\ a' = aa
        /\ b' = bb
        /\ analyzed' = TRUE
        /\ score' = s
        /\ glide' = g
        /\ file' = IF written /\ is_titan(s, g)
                   THEN append_line(file, titan_line(aa, bb, s, g))
                   ELSE file
    /\ calls' = calls + 1
    /\ pc' = "halted"
    /\ UNCHANGED <<pmVars, legVars, glideVars, attempts, label>>

Next ==
    \/ MainProbe
    \/ MainMine
    \/ MainInvalid
    \/ ProbeBadInput
    \/ ProbeAnalyze
    \/ MineSingular
    \/ MineIteration
    \/ KeyboardInterrupt
    \/ MineInterruptedDraw
    \/ MineInterruptedAnalysis
    \/ MineInterrupted

Spec == DriverInit /\ [][Next]_vars

(***************************************************************************)
(* Properties of power_mod, checked under SpecPowerMod.                    *)
(***************************************************************************)
RECURSIVE Pow(_, _)
Pow(n, e) == IF e = 0 THEN 1 ELSE n * Pow(n, e - 1)

\* C1: for every integer base, every exponent >= 0 and every modulus > 1,
\* power_mod returns base^exponent mod modulus, a value of [0, modulus);
\* with exponent 0 it returns 1.
C1_PowerModExact ==
    pc = "pm_done" =>
        /\ pm_res = Pow(pm_base, pm_exp) % pm_mod
        /\ pm_res \in 0..(pm_mod - 1)
        /\ (pm_exp = 0 => pm_res = 1)

C1_Witness ==
    /\ pc = "pm_done"
    /\ pm_base < 0
    /\ pm_exp >= 3
    /\ pm_res > 1
    /\ pm_res = Pow(pm_base, pm_exp) % pm_mod

(***************************************************************************)
(* Properties of the Legendre sum, checked under SpecAnalyze.              *)
(***************************************************************************)
\* f, nonzero mod p, is a square mod p
IsQR(f, p) == \E y \in 1..(p - 1) : (y * y) % p = f

\* C2: for every prime of the table, 2 included, the value added to ls_sum
\* for a residue x is 0 when f(x) = 0, 1 when f(x) is a nonzero quadratic
\* residue mod p and -1 otherwise.
C2_ValueIsResidueSymbol ==
    (pc = "residue" /\ x > 0) =>
        val = (IF fx = 0 THEN 0
               ELSE IF IsQR(fx, CurPrime) THEN 1 ELSE -1)

\* C3: every per-residue value added to ls_sum lies in {-1, 0, 1}.
C3_ValueInRange == val \in {-1, 0, 1}

C3_Witness ==
    /\ pc = "residue"
    /\ x > 0
    /\ CurPrime > 3
    /\ val = -1
    /\ fx # CurPrime - 1

\* C6: the local group order Np = p + 1 - ap is at least 1.
C6_GroupOrderPositive == pc \in {"glide", "glide_end"} => Np >= 1

C6_Witness == pc = "glide" /\ i = 0 /\ Np = 1 /\ ls_sum = -CurPrime

(***************************************************************************)
(* Properties of the glide loop.                                           *)
(***************************************************************************)
RefMap(c) == IF c.lo % 2 = 0 THEN WHalf(c) ELSE WTriplePlusOne(c)

\* the first k values of the orbit of c under the map, c itself excluded
RECURSIVE OrbitSeq(_, _)
OrbitSeq(c, k) ==
    IF k = 0 THEN <<>>
    ELSE IF k = 1 THEN <<RefMap(c)>>
    ELSE LET h == k \div 2
             head == OrbitSeq(c, h)
         IN  head \o OrbitSeq(head[h], k - h)

\* the step counts, up to the cap, after which the orbit of n is below n
DropSteps(n) ==
    LET orbit == OrbitSeq(Wide(n), GLIDE_CAP)
    IN  {k \in 1..GLIDE_CAP : WLess(orbit[k], n)}

ExpectedGlide(n) ==
    IF n <= 1 THEN 0
    ELSE LET ks == DropSteps(n)
         IN  IF ks = {} THEN GLIDE_CAP
             ELSE CHOOSE k \in ks : \A m \in ks : k <= m

\* C4: the glide of Np is 0 when Np <= 1 and otherwise min(cap, k) for the
\* least k >= 1 with the k-th value of the orbit below Np; every even
\* Np >= 2 has glide 1.
C4_GlideIsFirstDrop ==
    pc = "glide_end" =>
        /\ steps = ExpectedGlide(Np)
        /\ (Np >= 2 /\ Np % 2 = 0 => steps = 1)

C4_Witness ==
    /\ pc = "glide_end"
    /\ Np = 27
    /\ steps = 96
    /\ WLess(curr, Np)

\* C5: the step count never exceeds the cap, and neither does the running
\* maximum of the glides.
C5_GlideWithinCap ==
    /\ steps \in 0..GLIDE_CAP
    /\ max_glide \in 0..GLIDE_CAP

C5_Witness ==
    /\ pc = "prime"
    /\ Np \in LongStarts
    /\ steps = GLIDE_CAP
    /\ max_glide = GLIDE_CAP
    /\ ~WLess(curr, Np)

\* C10: for every Np of 1 .. 2 * 2741 + 1 the glide loop ends with zero
\* steps (Np = 1) or at a step that took the running value below Np; it
\* never ends at the cap or at curr <= 1 without curr < Np.
C10_TableGlideNeverCapped ==
    pc = "glide_end" =>
        \/ Np = 1 /\ steps = 0
        \/ Np >= 2 /\ steps \in 1..GLIDE_CAP /\ WLess(curr, Np)

C10_Witness ==
    /\ pc = "glide_end"
    /\ Np = 703
    /\ steps = 132
    /\ WLess(curr, Np)

(***************************************************************************)
(* Properties of the drivers, checked under Spec.                          *)
(***************************************************************************)
IsPrefix(s, t) == Len(s) <= Len(t) /\ SubSeq(t, 1, Len(s)) = s

\* C7: neither the manual probe nor the mining loop invokes analyze_physics
\* on a pair (A, B) with 4*A^3 + 27*B^2 = 0.
C7_NoSingularAnalyzed ==
    analyzed => 4 * a * a * a + 27 * b * b # 0

\* C8: at the head of the mining loop the attempt counter equals the number
\* of pairs analysed; an iteration that draws a singular pair leaves the
\* counter and the file unchanged, an iteration that draws a non-singular
\* pair adds exactly one to the counter.
C8_AttemptsCountAnalysed ==
    /\ [](pc = "mine" => attempts = calls)
    /\ [][(pc = "mine" /\ pc' = "mine") =>
            IF 4 * a' * a' * a' + 27 * b' * b' = 0
            THEN ~analyzed' /\ attempts' = attempts /\ file' = file
            ELSE analyzed' /\ attempts' = attempts + 1 /\ calls' = calls + 1]_vars

C8_Witness ==
    /\ pc = "mine"
    /\ attempts = 2
    /\ calls = 2
    /\ Len(file) = 1
    /\ ~analyzed
    /\ 4 * a * a * a + 27 * b * b = 0

\* C9: the file is append-only: an iteration whose result has score < -28.0
\* and glide > 80 appends exactly one line, every other iteration leaves the
\* file unchanged, and the content before a step is a prefix of the content
\* after it.
C9_FileAppendOnly ==
    [][/\ IsPrefix(file, file')
       /\ (pc = "mine" /\ pc' = "mine") =>
             IF analyzed' /\ score' < -28 /\ glide' > 80
             THEN /\ Len(file') = Len(file) + 1
                  /\ file'[Len(file')] = titan_line(a', b', score', glide')
             ELSE file' = file]_vars

C9_Witness ==
    /\ pc = "mine"
    /\ Len(file) = 2
    /\ file[1] # file[2]
    /\ attempts = 3
    /\ analyzed
    /\ ~(score < -28 /\ glide > 80)

====
